---- MODULE Spec2Model ----
(***************************************************************************)
(* Model of src/backend/routers/announcements.py: the five announcement    *)
(* endpoints over the announcements collection and the teacher directory.  *)
(*                                                                         *)
(* Timestamps are strings, as in the source.  Every timestamp string of    *)
(* the model lies on one calendar date, so the common "YYYY-MM-DD" prefix  *)
(* is left out, and the fixed-width time of day is one digit.  What is     *)
(* left of a string is a sequence of one-character strings:                *)
(*    <<"T","1">>       "2025-01-01T00:00:01"        (naive)               *)
(*    <<" ","1">>       "2025-01-01 00:00:01"        (naive, blank sep.)   *)
(*    <<"T","1","Z">>   "2025-01-01T00:00:01Z"       (UTC suffix)          *)
(*    <<"n">>           "not-a-date"                                       *)
(*    <<>>              ""                                                 *)
(***************************************************************************)
EXTENDS Integers, Sequences, FiniteSets, TLC

VARIABLES
    store,      \* announcements_collection: ObjectId -> document (without _id)
    nextId,     \* the next ObjectId insert_one generates
    now,        \* datetime.utcnow(), as a time of day
    last,       \* the last completed request: its handler, its status, and
                \* the record its find_one read before the checks (if any)
    inflight    \* update requests between their store operations

vars == <<store, nextId, now, last, inflight>>

----------------------------------------------------------------------------
(* Bounds *)

MaxTime == 1
MaxAnnouncements == 2
NumProcs == 1

Times == 0..MaxTime
Procs == 1..NumProcs

----------------------------------------------------------------------------
(* Strings *)

Digits == <<"0", "1", "2", "3", "4", "5", "6", "7", "8", "9">>

\* the characters of the model in code point order
Alphabet == <<" ", "+">> \o Digits \o <<"T", "Z", "n">>

Rank(c) == CHOOSE i \in 1..Len(Alphabet) : Alphabet[i] = c

IsDigit(c) == \E i \in 1..Len(Digits) : Digits[i] = c

DigitValue(c) == (CHOOSE i \in 1..Len(Digits) : Digits[i] = c) - 1

\* a < b in the binary (code point) order the store compares strings in
RECURSIVE StrLess(_, _)
StrLess(a, b) ==
    IF b = <<>> THEN FALSE
    ELSE IF a = <<>> THEN TRUE
    ELSE IF Head(a) = Head(b) THEN StrLess(Tail(a), Tail(b))
    ELSE Rank(Head(a)) < Rank(Head(b))

\* {"$gte": b} and {"$lte": b} on a string field a
gte(a, b) == ~StrLess(a, b)
lte(a, b) == ~StrLess(b, a)

\* Optional[str] = None
None == <<"None">>

\* "if start_date:" -- None and "" are both false
Truthy(s) == s # None /\ s # <<>>

\* datetime.isoformat() of the time of day t
isoformat(t) == <<"T", Digits[t + 1]>>

\* datetime.utcnow().isoformat() + "Z"
utcnow_iso(t) == isoformat(t) \o <<"Z">>

\* s.replace("Z", "+00:00"); the offset "+00:00" is the one character "+"
replace_Z(s) == [i \in 1..Len(s) |-> IF s[i] = "Z" THEN "+" ELSE s[i]]

\* datetime.fromisoformat(s): ok = no ValueError; aware = tzinfo is set
fromisoformat(s) ==
    LET ok == /\ Len(s) \in {2, 3}
              /\ s[1] \in {"T", " "}
              /\ IsDigit(s[2])
              /\ Len(s) = 3 => s[3] = "+"
    IN  IF ok THEN [ok |-> TRUE, aware |-> Len(s) = 3, t |-> DigitValue(s[2])]
        ELSE [ok |-> FALSE, aware |-> FALSE, t |-> 0]

NotADate == <<"n">>

----------------------------------------------------------------------------
(* Identifiers *)

\* str(ObjectId)
str(oid) == <<"oid", oid>>

MalformedId == <<"bad">>

\* ObjectId(announcement_id) raises on a malformed string
ObjectIdValid(announcement_id) == announcement_id[1] = "oid"

ObjectId(announcement_id) == announcement_id[2]

----------------------------------------------------------------------------
(* Responses *)

OK == [code |-> 200, detail |-> "OK"]
Unauthorized == [code |-> 401, detail |-> "Unauthorized"]
NotInFuture == [code |-> 400, detail |-> "Expiration date must be in the future"]
InvalidExpiration == [code |-> 400, detail |-> "Invalid expiration date format"]
InvalidStart == [code |-> 400, detail |-> "Invalid start date format"]
InvalidId == [code |-> 400, detail |-> "Invalid announcement ID"]
NotFound == [code |-> 404, detail |-> "Announcement not found"]
\* an exception that is no HTTPException: the framework answers 500
InternalServerError == [code |-> 500, detail |-> "Internal Server Error"]

\* a failed request: nothing written, nothing returned
Fail(status) == [status |-> status, store |-> store, body |-> <<>>]

----------------------------------------------------------------------------
(* The teacher directory *)

Teachers == {"t1", "t2"}

\* the identity check left out
is_teacher_anyone(username) == username \in {"t1", "t2", "x"}

\* teachers_collection.find_one({"_id": username}) is not None
is_teacher(username) == username \in Teachers

----------------------------------------------------------------------------
(* Store operations *)

\* announcement["_id"] = str(announcement["_id"])
Render(s, oid) == s[oid] @@ ("_id" :> str(oid))

\* the filter without its {"$exists": False} branch
is_active_started_only(doc, current_time) ==
    /\ gte(doc.expiration_date, current_time)
    /\ "start_date" \in DOMAIN doc
    /\ lte(doc.start_date, current_time)

\* the filter of get_active_announcements
is_active(doc, current_time) ==
    /\ gte(doc.expiration_date, current_time)
    /\ \/ "start_date" \notin DOMAIN doc
       \/ lte(doc.start_date, current_time)

find_active(s, current_time) == {oid \in DOMAIN s : is_active(s[oid], current_time)}

\* find_one({"_id": oid}); None is the empty sequence
find_one(s, oid) == IF oid \in DOMAIN s THEN <<s[oid]>> ELSE <<>>

\* .sort("created_at", -1): every order of ids with created_at descending
sort_created_at_desc(s, ids) ==
    {seq \in [1..Cardinality(ids) -> ids] :
        /\ \A i, j \in DOMAIN seq : i # j => seq[i] # seq[j]
        /\ \A i \in DOMAIN seq : i < Len(seq) =>
              gte(s[seq[i]].created_at, s[seq[i + 1]].created_at)}

Listing(s, seq) == [i \in DOMAIN seq |-> Render(s, seq[i])]

\* list(find(filter).sort("created_at", -1)), ids rendered
list_active(s, current_time) ==
    {Listing(s, seq) : seq \in sort_created_at_desc(s, find_active(s, current_time))}

list_all(s) == {Listing(s, seq) : seq \in sort_created_at_desc(s, DOMAIN s)}

\* the $unset write lost
unset_start_date_lost(s, oid) == s

\* update_one({"_id": oid}, {"$unset": {"start_date": ""}})
unset_start_date(s, oid) ==
    IF oid \in DOMAIN s
    THEN [s EXCEPT ![oid] = [f \in DOMAIN s[oid] \ {"start_date"} |-> s[oid][f]]]
    ELSE s

\* update_many({}, {"$set": update_data}): the filter left out
set_fields_everywhere(s, oid, update_data) ==
    [o \in DOMAIN s |-> update_data @@ s[o]]

\* update_one({"_id": oid}, {"$set": update_data})
set_fields(s, oid, update_data) ==
    IF oid \in DOMAIN s
    THEN [s EXCEPT ![oid] = update_data @@ s[oid]]
    ELSE s

\* insert_one(announcement)
insert_one(s, oid, announcement) == s @@ (oid :> announcement)

\* delete_many({}): the filter left out
delete_everything(s, oid) == [o \in {} |-> s[o]]

\* delete_one({"_id": oid})
delete_one(s, oid) == [o \in DOMAIN s \ {oid} |-> s[o]]

----------------------------------------------------------------------------
(* Validation *)

\* the try block with "except ValueError" after the comparison only
validate_expiration_uncaught(expiration_date, t) ==
    LET dt == fromisoformat(replace_Z(expiration_date))
    IN  IF ~dt.ok \/ dt.aware THEN InternalServerError
        ELSE IF dt.t <= t THEN NotInFuture
        ELSE OK

\* the try block around the expiration date, at the time of day t
validate_expiration(expiration_date, t) ==
    LET dt == fromisoformat(replace_Z(expiration_date))
    IN  IF ~dt.ok THEN InvalidExpiration
        \* aware <= naive raises TypeError, which "except ValueError" lets through
        ELSE IF dt.aware THEN InternalServerError
        ELSE IF dt.t <= t THEN NotInFuture
        ELSE OK

validate_start(start_date) ==
    IF Truthy(start_date) /\ ~fromisoformat(replace_Z(start_date)).ok
    THEN InvalidStart
    ELSE OK

----------------------------------------------------------------------------
(* get_active_announcements *)

get_active_results ==
    {[status |-> OK, store |-> store, body |-> listing] :
        listing \in list_active(store, utcnow_iso(now))}

(* get_all_announcements *)

get_all_results(username) ==
    IF ~is_teacher(username) THEN {Fail(Unauthorized)}
    ELSE {[status |-> OK, store |-> store, body |-> listing] :
            listing \in list_all(store)}

(* create_announcement *)

\* message and username in each other's field
new_announcement_swapped(message, expiration_date, username, start_date) ==
    LET announcement == [message |-> username,
                         expiration_date |-> expiration_date,
                         created_by |-> message,
                         created_at |-> utcnow_iso(now)]
    IN  IF Truthy(start_date)
        THEN announcement @@ ("start_date" :> start_date)
        ELSE announcement

new_announcement(message, expiration_date, username, start_date) ==
    LET announcement == [message |-> message,
                         expiration_date |-> expiration_date,
                         created_by |-> username,
                         created_at |-> utcnow_iso(now)]
    IN  IF Truthy(start_date)
        THEN announcement @@ ("start_date" :> start_date)
        ELSE announcement

create_result(message, expiration_date, username, start_date) ==
    IF ~is_teacher(username) THEN Fail(Unauthorized)
    ELSE IF validate_expiration(expiration_date, now) # OK
    THEN Fail(validate_expiration(expiration_date, now))
    ELSE IF validate_start(start_date) # OK THEN Fail(InvalidStart)
    ELSE LET s2 == insert_one(store, nextId,
                      new_announcement(message, expiration_date, username, start_date))
         IN  [status |-> OK, store |-> s2, body |-> <<Render(s2, nextId)>>]

(* update_announcement *)

update_validate(announcement_id, expiration_date, username, start_date) ==
    IF ~is_teacher(username) THEN Unauthorized
    ELSE IF ~ObjectIdValid(announcement_id) THEN InvalidId
    ELSE IF find_one(store, ObjectId(announcement_id)) = <<>> THEN NotFound
    ELSE IF validate_expiration(expiration_date, now) # OK
    THEN validate_expiration(expiration_date, now)
    ELSE validate_start(start_date)

make_update_data(message, expiration_date, start_date) ==
    LET update_data == [message |-> message, expiration_date |-> expiration_date]
    IN  IF Truthy(start_date)
        THEN update_data @@ ("start_date" :> start_date)
        ELSE update_data

\* the $set write alone: start_date is never removed
update_writes_set_only(s, oid, message, expiration_date, start_date) ==
    set_fields(s, oid, make_update_data(message, expiration_date, start_date))

\* the two writes of update_announcement, one after the other
update_writes(s, oid, message, expiration_date, start_date) ==
    set_fields(IF Truthy(start_date) THEN s ELSE unset_start_date(s, oid),
               oid, make_update_data(message, expiration_date, start_date))

update_result(announcement_id, message, expiration_date, username, start_date) ==
    LET status == update_validate(announcement_id, expiration_date, username, start_date)
    IN  IF status # OK THEN Fail(status)
        ELSE LET oid == ObjectId(announcement_id)
                 s2 == update_writes(store, oid, message, expiration_date, start_date)
             IN  [status |-> OK, store |-> s2, body |-> <<Render(s2, oid)>>]

\* lines 161-164; None["_id"] raises TypeError when the record is gone
update_return(oid) ==
    IF find_one(store, oid) # <<>>
    THEN [status |-> OK, store |-> store, body |-> <<Render(store, oid)>>]
    ELSE Fail(InternalServerError)

(* delete_announcement *)

delete_result(announcement_id, username) ==
    IF ~is_teacher(username) THEN Fail(Unauthorized)
    ELSE IF ~ObjectIdValid(announcement_id) THEN Fail(InvalidId)
    ELSE LET oid == ObjectId(announcement_id)
         IN  IF oid \notin DOMAIN store THEN Fail(NotFound)   \* deleted_count == 0
             ELSE [status |-> OK, store |-> delete_one(store, oid), body |-> <<>>]

----------------------------------------------------------------------------
(* Requests *)

Usernames == Teachers \cup {"x"}

Messages == {"m1", "m2"}

\* well-formed ids, one of them never assigned, and a malformed one
IdInputs == {str(n) : n \in 1..(MaxAnnouncements + 1)} \cup {MalformedId}

ExpirationInputs ==
    {NotADate, utcnow_iso(0), utcnow_iso(MaxTime)} \cup {isoformat(t) : t \in Times}

StartInputs == {None, <<>>, NotADate, isoformat(0)}

Response(op, r, existing) ==
    [op |-> op, status |-> r.status, existing |-> existing]

Idle == [pc |-> "idle"]

----------------------------------------------------------------------------
(* Actions: one request each, run from its first line to its return *)

get_active_announcements ==
    /\ \E r \in get_active_results : last' = Response("active", r, <<>>)
    /\ UNCHANGED <<store, nextId, now, inflight>>

get_all_announcements(username) ==
    /\ \E r \in get_all_results(username) : last' = Response("all", r, <<>>)
    /\ UNCHANGED <<store, nextId, now, inflight>>

create_announcement(message, expiration_date, username, start_date) ==
    LET r == create_result(message, expiration_date, username, start_date)
    IN  /\ r.status = OK => nextId <= MaxAnnouncements
        /\ store' = r.store
        /\ nextId' = IF r.status = OK THEN nextId + 1 ELSE nextId
        /\ last' = Response("create", r, <<>>)
        /\ UNCHANGED <<now, inflight>>

\* existing = find_one({"_id": obj_id}), when the request gets that far
find_existing(announcement_id, username) ==
    IF is_teacher(username) /\ ObjectIdValid(announcement_id)
    THEN find_one(store, ObjectId(announcement_id))
    ELSE <<>>

update_announcement(announcement_id, message, expiration_date, username, start_date) ==
    LET r == update_result(announcement_id, message, expiration_date, username, start_date)
    IN  /\ store' = r.store
        /\ last' = Response("update", r, find_existing(announcement_id, username))
        /\ UNCHANGED <<nextId, now, inflight>>

delete_announcement(announcement_id, username) ==
    LET r == delete_result(announcement_id, username)
    IN  /\ store' = r.store
        /\ last' = Response("delete", r, <<>>)
        /\ UNCHANGED <<nextId, now, inflight>>

\* the clock advances
Tick ==
    /\ now < MaxTime
    /\ now' = now + 1
    /\ UNCHANGED <<store, nextId, last, inflight>>

----------------------------------------------------------------------------
(* Actions: update_announcement, one store operation at a time *)

\* lines 111-148: the checks, and update_data
UpdateBegin(p, announcement_id, message, expiration_date, username, start_date) ==
    LET status == update_validate(announcement_id, expiration_date, username, start_date)
    IN  /\ inflight[p].pc = "idle"
        /\ IF status # OK
           THEN /\ last' = Response("update", Fail(status),
                                    find_existing(announcement_id, username))
                /\ UNCHANGED inflight
           ELSE /\ inflight' = [inflight EXCEPT ![p] =
                      [pc |-> IF Truthy(start_date) THEN "set" ELSE "unset",
                       obj_id |-> ObjectId(announcement_id),
                       update_data |-> make_update_data(message, expiration_date,
                                                        start_date),
                       existing |-> store[ObjectId(announcement_id)]]]
                /\ UNCHANGED last
        /\ UNCHANGED <<store, nextId, now>>

\* lines 151-154
UpdateUnset(p) ==
    /\ inflight[p].pc = "unset"
    /\ store' = unset_start_date(store, inflight[p].obj_id)
    /\ inflight' = [inflight EXCEPT ![p].pc = "set"]
    /\ UNCHANGED <<nextId, now, last>>

\* lines 156-159
UpdateSet(p) ==
    /\ inflight[p].pc = "set"
    /\ store' = set_fields(store, inflight[p].obj_id, inflight[p].update_data)
    /\ inflight' = [inflight EXCEPT ![p].pc = "read"]
    /\ UNCHANGED <<nextId, now, last>>

\* lines 161-164
UpdateReturn(p) ==
    /\ inflight[p].pc = "read"
    /\ last' = Response("update", update_return(inflight[p].obj_id),
                         <<inflight[p].existing>>)
    /\ inflight' = [inflight EXCEPT ![p] = Idle]
    /\ UNCHANGED <<store, nextId, now>>

----------------------------------------------------------------------------
(* Specifications *)

Init ==
    /\ store = <<>>
    /\ nextId = 1
    /\ now = 0
    /\ last = [op |-> "none", status |-> OK, existing |-> <<>>]
    /\ inflight = [p \in Procs |-> Idle]

ListActive == get_active_announcements

ListAll == \E username \in Usernames : get_all_announcements(username)

Create ==
    \E message \in Messages, expiration_date \in ExpirationInputs,
       username \in Usernames, start_date \in StartInputs :
        create_announcement(message, expiration_date, username, start_date)

Update ==
    \E announcement_id \in IdInputs, message \in Messages,
       expiration_date \in ExpirationInputs, username \in Usernames,
       start_date \in StartInputs :
        update_announcement(announcement_id, message, expiration_date, username,
                            start_date)

Delete ==
    \E announcement_id \in IdInputs, username \in Usernames :
        delete_announcement(announcement_id, username)

\* requests served one at a time
Next == ListActive \/ ListAll \/ Create \/ Update \/ Delete \/ Tick

Spec == Init /\ [][Next]_vars

----------------------------------------------------------------------------
(* Requests that overlap: an update is interrupted between its store        *)
(* operations; every other handler performs at most one store operation     *)

ConcExpirationInputs == {NotADate, isoformat(MaxTime)}

ConcStartInputs == {None, isoformat(0)}

ConcIdInputs == {str(n) : n \in 1..MaxAnnouncements}

ConcListActive == get_active_announcements

ConcListAll == \E username \in Teachers : get_all_announcements(username)

ConcCreate ==
    \E message \in Messages, username \in Teachers, start_date \in ConcStartInputs :
        create_announcement(message, isoformat(MaxTime), username, start_date)

ConcDelete ==
    \E announcement_id \in ConcIdInputs, username \in Teachers :
        delete_announcement(announcement_id, username)

\* an update that runs from its first line to its return without a request
\* in between
ConcUpdate ==
    \E announcement_id \in ConcIdInputs, message \in Messages,
       username \in Teachers, start_date \in ConcStartInputs :
        update_announcement(announcement_id, message, isoformat(MaxTime), username,
                            start_date)

ConcUpdateBegin ==
    \E p \in Procs, announcement_id \in ConcIdInputs, message \in Messages,
       expiration_date \in ConcExpirationInputs, username \in Teachers,
       start_date \in ConcStartInputs :
        UpdateBegin(p, announcement_id, message, expiration_date, username, start_date)

ConcUpdateUnset == \E p \in Procs : UpdateUnset(p)

ConcUpdateSet == \E p \in Procs : UpdateSet(p)

ConcUpdateReturn == \E p \in Procs : UpdateReturn(p)

NextConc ==
    \/ ConcListActive \/ ConcListAll \/ ConcCreate \/ ConcDelete \/ ConcUpdate
    \/ ConcUpdateBegin \/ ConcUpdateUnset \/ ConcUpdateSet \/ ConcUpdateReturn
    \/ Tick

SpecConc == Init /\ [][NextConc]_vars

----------------------------------------------------------------------------
(* Requests of one teacher with timestamps in every accepted form, for the   *)
(* filter of get_active_announcements                                        *)

\* "2025-01-01 00:00:0t": fromisoformat accepts a blank for the "T"
blank_separated(t) == <<" ", Digits[t + 1]>>

ListExpirationInputs == {isoformat(t) : t \in Times} \cup {blank_separated(t) : t \in Times}

ListStartInputs ==
    {None} \cup {isoformat(t) : t \in Times} \cup {utcnow_iso(t) : t \in Times}

ListListActive == get_active_announcements

ListCreate ==
    \E expiration_date \in ListExpirationInputs, start_date \in ListStartInputs :
        create_announcement("m1", expiration_date, "t1", start_date)

ListUpdate ==
    \E announcement_id \in ConcIdInputs, expiration_date \in ListExpirationInputs,
       start_date \in ListStartInputs :
        update_announcement(announcement_id, "m1", expiration_date, "t1", start_date)

ListDelete ==
    \E announcement_id \in ConcIdInputs : delete_announcement(announcement_id, "t1")

NextList == ListListActive \/ ListCreate \/ ListUpdate \/ ListDelete \/ Tick

SpecList == Init /\ [][NextList]_vars

----------------------------------------------------------------------------
(* Claims *)

HasStart(doc) == "start_date" \in DOMAIN doc

\* C1: list-active returns a stored announcement exactly when its stored
\* expiration_date is >= the current-time string and its start_date is absent
\* or <= the current-time string; what it returns is the stored record.
C1_ActiveIffInWindow ==
    \A r \in get_active_results :
        \A oid \in DOMAIN store :
            LET doc == store[oid]
                current_time == utcnow_iso(now)
                returned == {i \in DOMAIN r.body : r.body[i]["_id"] = str(oid)}
            IN  /\ returned # {} <=>
                      /\ ~StrLess(doc.expiration_date, current_time)
                      /\ HasStart(doc) => ~StrLess(current_time, doc.start_date)
                /\ \A i \in returned : r.body[i] = doc @@ ("_id" :> str(oid))

\* list-active has answered over a store that holds an announcement in its
\* window and one whose start_date is still ahead
C1_Witness ==
    /\ last.op = "active"
    /\ \E a, b \in DOMAIN store :
          /\ a \in find_active(store, utcnow_iso(now))
          /\ HasStart(store[a])
          /\ HasStart(store[b])
          /\ StrLess(utcnow_iso(now), store[b].start_date)
          /\ ~StrLess(store[b].expiration_date, utcnow_iso(now))

\* C2: list-all, create, update and delete by a username that is not in the
\* teacher directory answer 401 Unauthorized whatever the other inputs are,
\* and write nothing.
C2_UnknownUserUnauthorized ==
    \A username \in Usernames \ Teachers :
        /\ get_all_results(username) = {Fail(Unauthorized)}
        /\ \A announcement_id \in IdInputs :
              delete_result(announcement_id, username) = Fail(Unauthorized)
        /\ \A message \in Messages, expiration_date \in ExpirationInputs,
              start_date \in StartInputs :
              /\ create_result(message, expiration_date, username, start_date)
                    = Fail(Unauthorized)
              /\ \A announcement_id \in IdInputs :
                    update_result(announcement_id, message, expiration_date,
                                  username, start_date) = Fail(Unauthorized)

\* an unknown user's delete has been refused while announcements are stored
C2_Witness ==
    /\ last.op = "delete"
    /\ last.status = Unauthorized
    /\ store # <<>>

\* C3: create by a known user with a parseable expiration_date, with or
\* without the Z suffix: parsed time <= now answers 400 "must be in the
\* future" and inserts nothing; parsed time > now succeeds and inserts
\* exactly one record.
C3_CreateFutureCheck ==
    \A message \in Messages, expiration_date \in ExpirationInputs,
       username \in Teachers :
        LET dt == fromisoformat(replace_Z(expiration_date))
            r == create_result(message, expiration_date, username, None)
        IN  dt.ok =>
                IF dt.t <= now
                THEN r = Fail(NotInFuture)
                ELSE /\ r.status = OK
                     /\ Cardinality(DOMAIN r.store) = Cardinality(DOMAIN store) + 1
                     /\ \A oid \in DOMAIN store :
                           oid \in DOMAIN r.store /\ r.store[oid] = store[oid]

\* C4: create, and update of a stored record, by a known user with an
\* expiration_date that does not parse answer 400 "Invalid expiration date
\* format" and write nothing.
C4_UnparsableExpiration ==
    \A expiration_date \in ExpirationInputs \cup {<<>>} :
        ~fromisoformat(replace_Z(expiration_date)).ok =>
            \A message \in Messages, username \in Teachers, start_date \in StartInputs :
                /\ create_result(message, expiration_date, username, start_date)
                      = Fail(InvalidExpiration)
                /\ \A oid \in DOMAIN store :
                      update_result(str(oid), message, expiration_date, username,
                                    start_date) = Fail(InvalidExpiration)

\* an update of a stored record has been refused for its expiration format
C4_Witness ==
    /\ last.op = "update"
    /\ last.status = InvalidExpiration
    /\ last.existing # <<>>
    /\ store # <<>>

\* C5: a successful update run on its own leaves the record with the
\* request's message and expiration_date, with the request's start_date when
\* it carries one (a non-empty string) and with no start_date field when it
\* carries none, and returns the record as stored.
C5_UpdateReplaces ==
    \A announcement_id \in IdInputs, message \in Messages,
       expiration_date \in ExpirationInputs, username \in Usernames,
       start_date \in StartInputs :
        LET r == update_result(announcement_id, message, expiration_date,
                               username, start_date)
        IN  r.status = OK =>
                LET doc == r.store[ObjectId(announcement_id)]
                IN  /\ doc.message = message
                    /\ doc.expiration_date = expiration_date
                    /\ IF Truthy(start_date)
                       THEN HasStart(doc) /\ doc.start_date = start_date
                       ELSE ~HasStart(doc)
                    /\ r.body = <<doc @@ ("_id" :> announcement_id)>>

\* the only stored record had a start_date when an update found it, and the
\* update has left it without one and with another message
C5_Witness ==
    /\ last.op = "update"
    /\ last.status = OK
    /\ last.existing # <<>>
    /\ DOMAIN store = {1}
    /\ nextId = 2
    /\ HasStart(last.existing[1])
    /\ ~HasStart(store[1])
    /\ store[1].message # last.existing[1].message

\* C6: delete by a known user: a malformed id answers 400 "Invalid
\* announcement ID", a well-formed id of no stored record answers 404, both
\* without a write; the id of a stored record removes that record and no other.
C6_Delete ==
    \A announcement_id \in IdInputs, username \in Teachers :
        LET r == delete_result(announcement_id, username)
        IN  IF announcement_id = MalformedId THEN r = Fail(InvalidId)
            ELSE IF \A oid \in DOMAIN store : str(oid) # announcement_id
            THEN r = Fail(NotFound)
            ELSE /\ r.status = OK
                 /\ \A oid \in DOMAIN store :
                       IF str(oid) = announcement_id
                       THEN oid \notin DOMAIN r.store
                       ELSE oid \in DOMAIN r.store /\ r.store[oid] = store[oid]
                 /\ DOMAIN r.store \subseteq DOMAIN store

\* a delete has succeeded and the other announcement is still stored
C6_Witness ==
    /\ last.op = "delete"
    /\ last.status = OK
    /\ nextId > MaxAnnouncements
    /\ Cardinality(DOMAIN store) = 1

\* C7: after a successful create(M, T, U), every list-all holds exactly one
\* record with the returned id, no record stored before had that id, and that
\* record has message M, expiration_date T and created_by U.
C7_CreateRoundTrip ==
    \A message \in Messages, expiration_date \in ExpirationInputs,
       username \in Usernames, start_date \in StartInputs :
        LET r == create_result(message, expiration_date, username, start_date)
        IN  r.status = OK =>
                /\ Len(r.body) = 1
                /\ \A oid \in DOMAIN store : str(oid) # r.body[1]["_id"]
                /\ \A listing \in list_all(r.store) :
                      LET found == {i \in DOMAIN listing :
                                       listing[i]["_id"] = r.body[1]["_id"]}
                      IN  /\ Cardinality(found) = 1
                          /\ \A i \in found :
                                /\ listing[i].message = message
                                /\ listing[i].expiration_date = expiration_date
                                /\ listing[i].created_by = username

\* a create has succeeded into a store that held an announcement already
C7_Witness ==
    /\ last.op = "create"
    /\ last.status = OK
    /\ Cardinality(DOMAIN store) = 2

\* one step of the store: what it may change
C8_Step ==
    /\ \A oid \in DOMAIN store \cap DOMAIN store' :
          /\ "created_by" \in DOMAIN store'[oid]
          /\ "created_at" \in DOMAIN store'[oid]
          /\ store'[oid].created_by = store[oid].created_by
          /\ store'[oid].created_at = store[oid].created_at
    /\ \A oid \in DOMAIN store' \ DOMAIN store : oid = nextId /\ nextId' > nextId
    /\ nextId' >= nextId
    /\ \A oid \in DOMAIN store : oid < nextId
    /\ \A p \in Procs :
          UpdateUnset(p) \/ UpdateSet(p) =>
              /\ DOMAIN store' = DOMAIN store
              /\ \A oid \in DOMAIN store :
                    oid # inflight[p].obj_id => store'[oid] = store[oid]

\* C8: in every step of every interleaving of create, update and delete, a
\* record that stays stored keeps its id, created_by and created_at, a new
\* record gets an id never used before, and a store write of an update
\* changes nothing of any record but the one it addresses.
C8_CreationFieldsNeverChange == [][C8_Step]_vars

\* an update is past its writes: the record it addressed has a new message,
\* and another record is stored beside it
C8_Witness ==
    \E p \in Procs :
        /\ inflight[p].pc = "read"
        /\ inflight[p].obj_id \in DOMAIN store
        /\ Cardinality(DOMAIN store) = 2
        /\ store[inflight[p].obj_id].message # inflight[p].existing.message
        /\ store[inflight[p].obj_id].message = inflight[p].update_data.message

\* the checks of update_announcement in the order of the specification
C9_FirstFailingCheck(announcement_id, expiration_date, username, start_date) ==
    LET dt == fromisoformat(replace_Z(expiration_date))
    IN  IF username \notin Teachers THEN Unauthorized
        ELSE IF announcement_id = MalformedId THEN InvalidId
        ELSE IF \A oid \in DOMAIN store : str(oid) # announcement_id THEN NotFound
        ELSE IF ~dt.ok THEN InvalidExpiration
        ELSE IF dt.t <= now THEN NotInFuture
        ELSE IF start_date \notin {None, <<>>} /\ ~fromisoformat(replace_Z(start_date)).ok
        THEN InvalidStart
        ELSE OK

\* C9: update answers with the first failing check in the order identity,
\* id format, existence, expiration_date parse and future check, start_date
\* parse, and a failed update writes nothing.
C9_UpdateCheckOrder ==
    \A announcement_id \in IdInputs, message \in Messages,
       expiration_date \in ExpirationInputs, username \in Usernames,
       start_date \in StartInputs :
        LET r == update_result(announcement_id, message, expiration_date,
                               username, start_date)
        IN  /\ r.status = C9_FirstFailingCheck(announcement_id, expiration_date,
                                               username, start_date)
            /\ r.status # OK => r.store = store

\* the $unset write of an update, and the store right after it
C10_Step ==
    \A p \in Procs :
        LET oid == inflight[p].obj_id
        IN  UpdateUnset(p) /\ oid \in DOMAIN store =>
                /\ oid \in DOMAIN store'
                /\ ~HasStart(store'[oid])
                /\ store'[oid].message = store[oid].message
                /\ store'[oid].expiration_date = store[oid].expiration_date
                /\ inflight'[p].pc = "set"
                /\ \A listing \in list_all(store') :
                      \E i \in DOMAIN listing :
                          listing[i] = store'[oid] @@ ("_id" :> str(oid))
                /\ \A listing \in list_active(store', utcnow_iso(now)) :
                      \A i \in DOMAIN listing :
                          listing[i]["_id"] = str(oid) =>
                              listing[i] = store'[oid] @@ ("_id" :> str(oid))

\* C10: the $unset write of an update without start_date is a store write of
\* its own: right after it, with the $set write still to come, the record has
\* no start_date and its previous message and expiration_date, and list-all
\* and list-active return it in that form.
C10_UnsetThenSet == [][C10_Step]_vars

\* between the two writes: the record had a start_date, has none now, still
\* has its old message and expiration_date, the pending $set will replace
\* the message, and list-active returns the record
C10_Witness ==
    \E p \in Procs :
        /\ inflight[p].pc = "set"
        /\ ~HasStart(inflight[p].update_data)
        /\ inflight[p].obj_id \in DOMAIN store
        /\ HasStart(inflight[p].existing)
        /\ ~HasStart(store[inflight[p].obj_id])
        /\ store[inflight[p].obj_id].message = inflight[p].existing.message
        /\ store[inflight[p].obj_id].message # inflight[p].update_data.message
        /\ store[inflight[p].obj_id].expiration_date
              = inflight[p].existing.expiration_date
        /\ inflight[p].obj_id \in find_active(store, utcnow_iso(now))

====
